---- MODULE Spec2Model ----
(***************************************************************************)
(* realtime_spectrogram: the streaming pipeline                            *)
(*   audio callback --(unbounded channel)--> FFT worker --> Mutex<Vec<..>> *)
(*                                                <-- renderer (clone)     *)
(* Sources: src/src/audio.rs (callback), src/src/fft_worker.rs (worker),   *)
(* src/src/ui.rs and src/src/ui/gui.rs (renderer), src/src/main.rs (the    *)
(* same three pieces inlined in one file).                                 *)
(*                                                                         *)
(* Scaling.  The source fixes FFT_SIZE = 512 and SPEC_WIDTH = 200.  The    *)
(* model keeps the code's structure and scales the two sizes down:         *)
(* FFT_SIZE = 4 (the smallest size with more than one output bin whose     *)
(* DFT is exact in integer arithmetic) and a store of SPEC_WIDTH frames    *)
(* (the worker takes the store as an argument and works for any length;    *)
(* its tests use 5).  Samples are integers.                                *)
(***************************************************************************)
EXTENDS Integers, Sequences, FiniteSets

\* ------------------------------------------------------------ sizes
\* const FFT_SIZE: usize = 512, scaled (see above).
FFT_SIZE == 4
\* const SPEC_WIDTH: usize = 200, scaled; the length of the store.
SPEC_WIDTH == 2
\* config.channels: interleaved channels per device frame.
Channels == 2
\* Bounds of the exploration: number of callbacks, and total mono samples.
MaxCallbacks == 3
MaxSamples == 13
\* The same bound for the runs that check progress under fairness.
FairMaxCallbacks == 2
\* The same bound for the runs that resize the terminal.
DrawMaxCallbacks == 1
\* config.sample_rate(), in Hz, scaled with FFT_SIZE (the display spans
\* 20 Hz .. SampleRate / 2 on a logarithmic axis).
SampleRate == 400
\* The integer that stands for the sample value 1.0.
FullScale == 25

\* Mono lengths a device callback may deliver: empty, short, one short of a
\* window, exactly a window, more than two windows.
ChunkLens == {0, 1, FFT_SIZE - 1, FFT_SIZE, 2 * FFT_SIZE + 1}

\* Inner sizes the terminal may be resized to: any width up to one column more
\* than the history, and no row, one row, three rows.
TermWidths == 0..(SPEC_WIDTH + 1)
TermHeights == {0, 1, 3}

VARIABLES
    senders,      \* live Sender handles: "main" (tx), "stream" (tx.clone() in the callback)
    queue,        \* the unbounded channel: chunks sent and not yet received
    ppc,          \* audio callback: "idle" | "send"
    mono,         \* the callback's local `mono`
    wpc,          \* worker position
    chunk,        \* worker local: the chunk bound by `for chunk in rx`
    buffer,       \* worker local: Pending Buffer
    frame,        \* worker local: the drained Analysis Window
    mags,         \* worker local: the Spectral Frame
    spectrogram,  \* the Vec<Vec<f32>> inside the Mutex
    lock,         \* holder of the Mutex: "free" | "worker" | "ui", or "poisoned"
                  \* (free, and poisoned by a holder that panicked)
    rpc,          \* renderer position
    uiSpec,       \* renderer local `spec`: the last clone
    term,         \* the terminal's inner area (block.inner(f.area())): width, height
    screen,       \* the picture built by the draw that just ended
    \* history (ghost) variables, written only to state the properties
    sent,         \* every chunk handed to the channel, in send order
    ingested,     \* every chunk the worker appended to buffer, in order
    windows,      \* every Analysis Window drained, in order
    pushed,       \* every Spectral Frame inserted into the store, in order
    ncalls        \* number of callbacks so far

vars == <<senders, queue, ppc, mono, wpc, chunk, buffer, frame, mags,
          spectrogram, lock, rpc, uiSpec, term, screen, sent, ingested, windows,
          pushed, ncalls>>

\* ------------------------------------------------------------ helpers
\* Concatenation of a sequence of sequences (Vec::extend, repeated).
RECURSIVE Flatten(_)
Flatten(ss) == IF ss = <<>> THEN <<>> ELSE Head(ss) \o Flatten(Tail(ss))

RECURSIVE SumSeq(_)
SumSeq(s) == IF s = <<>> THEN 0 ELSE Head(s) + SumSeq(Tail(s))

\* vec![0.0; FFT_SIZE / 2]
ZeroFrame == [k \in 1..(FFT_SIZE \div 2) |-> 0]
\* vec![vec![0.0; FFT_SIZE / 2]; SPEC_WIDTH]
InitialStore == [i \in 1..SPEC_WIDTH |-> ZeroFrame]

\* ------------------------------------------------------------ audio callback
\* The device buffer `data` of a callback: n device frames of Channels
\* interleaved samples.  Channel 0 carries a ramp (the sample's global
\* position in the mono stream, so every sample is distinguishable), the
\* other channels carry -1.
DeviceData(n, base) ==
    [i \in 1..(n * Channels) |->
        IF (i - 1) % Channels = 0 THEN base + ((i - 1) \div Channels) + 1 ELSE -1]

\* buffer.chunks(channels).map(|c| c[0]).collect()
MonoOf(data) ==
    [j \in 1..((Len(data) + Channels - 1) \div Channels) |-> data[(j - 1) * Channels + 1]]

\* ------------------------------------------------------------ transform
\* e^{-2 pi i j / FFT_SIZE} for FFT_SIZE = 4: cos and sin of j quarter turns.
Cos4(j) == CASE j % 4 = 0 -> 1 [] j % 4 = 2 -> -1 [] OTHER -> 0
Sin4(j) == CASE j % 4 = 1 -> 1 [] j % 4 = 3 -> -1 [] OTHER -> 0

\* fft.process(&mut input) on input[n] = Complex { re: x[n], im: 0 }: output bin k
\* (0-based) is sum_n x[n] * e^{-2 pi i k n / FFT_SIZE}; real and imaginary part.
FftRe(x, k) == SumSeq([n \in 1..Len(x) |-> x[n] * Cos4(k * (n - 1))])
FftIm(x, k) == SumSeq([n \in 1..Len(x) |-> 0 - x[n] * Sin4(k * (n - 1))])

\* c.norm() squared.
NormSqr(x, k) == FftRe(x, k) * FftRe(x, k) + FftIm(x, k) * FftIm(x, k)

\* The magnitude c.norm() / FFT_SIZE is at or below the floor: its log10 is
\* <= -2, i.e. sqrt(p) / (FFT_SIZE * FullScale) <= 1/100 for p = norm^2 in
\* model units.
BelowFloor(p) == 10000 * p <= FFT_SIZE * FFT_SIZE * FullScale * FullScale

\* Mutant: .max(-2.0) is forgotten, a magnitude below the floor gets a negative
\* value.
LogMagNoFloor(p) == IF BelowFloor(p) THEN -1 ELSE p

\* (c.norm() / FFT_SIZE).log10().max(-2.0) + 2.0, as a function of p = norm^2.
\* The result is a real number; the model encodes it by an integer in an
\* order-preserving way: 0 is the value 0.0 of a magnitude at or below the
\* floor, and p > 0 stands for log10(sqrt(p) / (FFT_SIZE * FullScale)) + 2 > 0,
\* which is strictly increasing in p and has no upper limit.
LogMag(p) == IF BelowFloor(p) THEN 0 ELSE p

\* Mutant: every output bin is kept (the slice [..FFT_SIZE / 2] is forgotten).
TransformAllBins(x) == [k \in 1..FFT_SIZE |-> LogMag(NormSqr(x, k - 1))]

\* input[..FFT_SIZE / 2].iter().map(..).collect(): the Spectral Frame of a window.
Transform(x) == [k \in 1..(FFT_SIZE \div 2) |-> LogMag(NormSqr(x, k - 1))]

\* ------------------------------------------------------------ drawing
Min(a, b) == IF a <= b THEN a ELSE b

RECURSIVE Pow(_, _)
Pow(b, e) == IF e = 0 THEN 1 ELSE b * Pow(b, e - 1)

\* The inner area at start: narrower than the history (as an 80-column
\* terminal is for 200 frames), three rows.
InitialTerm == [width |-> SPEC_WIDTH - 1, height |-> 3]

\* No picture: before the first draw, and when the next iteration begins (the
\* draw closure's `lines` are dropped, every draw starts from an empty frame).
NoPicture == [kind |-> "none", width |-> 0, cols |-> <<>>, lines |-> <<>>]

\* fft_index of a row (0-based) of `height` rows:
\*   frac = 1 - row / height, freq = 10^(log_min + frac * (log_max - log_min)),
\*   fft_index = round((freq / f_max) * (FFT_SIZE / 2))
\* with f_min = 20 and f_max = SampleRate / 2, so that freq / f_max =
\* (40 / SampleRate)^(row / height).  round(q * FFT_SIZE / 2) >= k, for k >= 1,
\* iff q >= (2k - 1) / FFT_SIZE, iff (raising to the power height)
\*   40^row * FFT_SIZE^height >= (2k - 1)^height * SampleRate^row.
IndexAtLeast(k, row, height) ==
    \/ k = 0
    \/ Pow(40, row) * Pow(FFT_SIZE, height) >= Pow(2 * k - 1, height) * Pow(SampleRate, row)

FftIndex(row, height) ==
    CHOOSE k \in 0..FFT_SIZE :
        /\ IndexAtLeast(k, row, height)
        /\ k = FFT_SIZE \/ ~IndexAtLeast(k + 1, row, height)

\* column[fft_index]: Rust's checked indexing; out of range it panics.
ReadAt(column, idx) ==
    IF idx < Len(column) THEN <<"val", column[idx + 1]>> ELSE <<"oob", 0>>

\* Mutant: the guard admits the index one past the end.
InBoundsInclusive(idx, column) == idx <= Len(column)

\* if fft_index < column.len()
InBounds(idx, column) == idx < Len(column)

\* One cell of the terminal: the glyph and colour are functions of the value
\* read; Span::raw(" ") when the index is out of range.
TermCell(column, idx) ==
    IF InBounds(idx, column) THEN ReadAt(column, idx) ELSE <<"blank", 0>>

\* spec.iter().rev().take(width): the positions (1-based; 1 is the newest
\* frame) of the columns, in the order they are drawn.
RevTake(n, width) == [i \in 1..Min(width, n) |-> n - i + 1]

\* The closure of terminal.draw: `lines`, one line per row, one cell per column.
TerminalPicture(spec, t) ==
    LET width == Min(t.width, SPEC_WIDTH)
        cols == RevTake(Len(spec), width)
    IN  [kind |-> "tui", width |-> width, cols |-> cols,
         lines |-> [r \in 1..t.height |->
                      [x \in 1..Len(cols) |->
                          TermCell(spec[cols[x]], FftIndex(r - 1, t.height))]]]

\* spec[rev_x][fft_index].clamp(0.0, 2.0) on the encoded value: 2.0 is the
\* value of a magnitude of 1.0, i.e. of p = (FFT_SIZE * FullScale)^2.
Clamp02(v) ==
    IF v < 0 THEN 0
    ELSE IF v > FFT_SIZE * FFT_SIZE * FullScale * FullScale
         THEN FFT_SIZE * FFT_SIZE * FullScale * FullScale
         ELSE v

\* One pixel of the GUI's image: the intensity is a function of the clamped
\* value; 0.0 when the index is out of range.
GuiCell(column, idx) ==
    IF InBounds(idx, column)
    THEN <<ReadAt(column, idx)[1], Clamp02(ReadAt(column, idx)[2])>>
    ELSE <<"val", 0>>

\* SpectrogramApp::update: width = spec.len(), height = spec[0].len() (which
\* panics on an empty history); column x shows spec[width - 1 - x], image row
\* height - 1 - y shows the index of y.  Rows are listed top to bottom.
GuiPicture(spec) ==
    IF spec = <<>>
    THEN [kind |-> "gui", width |-> 0, cols |-> <<>>, lines |-> << << <<"oob", 0>> >> >>]
    ELSE LET width == Len(spec)
             height == Len(spec[1])
             cols == [x \in 1..width |-> width - x + 1]
         IN  [kind |-> "gui", width |-> width, cols |-> cols,
              lines |-> [j \in 1..height |->
                           [x \in 1..width |->
                               GuiCell(spec[cols[x]], FftIndex(height - j, height))]]]

\* The draw panicked: some read was out of range.
Panics(pic) ==
    \E r \in 1..Len(pic.lines) : \E x \in 1..Len(pic.lines[r]) : pic.lines[r][x][1] = "oob"

\* ------------------------------------------------------------ initial state
Init ==
    /\ senders = {"main", "stream"}
    /\ queue = <<>>
    /\ ppc = "idle"
    /\ mono = <<>>
    /\ wpc = "recv"
    /\ chunk = <<>>
    /\ buffer = <<>>
    /\ frame = <<>>
    /\ mags = <<>>
    /\ spectrogram = InitialStore
    /\ lock = "free"
    /\ rpc = "poll"
    /\ uiSpec = <<>>
    /\ term = InitialTerm
    /\ screen = NoPicture
    /\ sent = <<>>
    /\ ingested = <<>>
    /\ windows = <<>>
    /\ pushed = <<>>
    /\ ncalls = 0

workerVars == <<wpc, chunk, buffer, frame, mags>>
drawVars == <<term, screen>>
uiVars == <<rpc, uiSpec, term, screen>>
audioVars == <<ppc, mono, ncalls>>
ghostVars == <<sent, ingested, windows, pushed>>

\* ------------------------------------------------------------ audio callback
\* The device invokes the data callback while the stream (which owns the
\* cloned Sender) is alive: it converts and mono-reduces the device buffer.
Callback(n) ==
    /\ ppc = "idle"
    /\ "stream" \in senders
    /\ ncalls < MaxCallbacks
    /\ Len(Flatten(sent)) + n <= MaxSamples
    /\ mono' = MonoOf(DeviceData(n, Len(Flatten(sent))))
    /\ ppc' = "send"
    /\ ncalls' = ncalls + 1
    /\ UNCHANGED <<senders, queue, workerVars, spectrogram, lock, uiVars, ghostVars>>

\* The channel is disconnected for the sender once the Receiver is dropped,
\* which happens when the worker's closure returns or unwinds.
ReceiverAlive == wpc \notin {"done", "panicked", "crashed"}

\* Mutant: a bounded(1) channel, whose send waits while a chunk is queued.
CanSendBounded == Len(queue) < 1

\* What sender.send(mono) needs in order to return: crossbeam's unbounded
\* channel has no capacity, send never waits.
CanSend == TRUE

\* Mutant: a full bounded channel with try_send, which discards the chunk.
EnqueueOrDrop(q, m) == IF Len(q) >= 1 THEN q ELSE Append(q, m)

\* send on a connected channel: the message goes to the back of the queue.
Enqueue(q, m) == Append(q, m)

\* sender.send(mono).ok(): enqueue, or Err(SendError) dropped by .ok().
AudioSend ==
    /\ ppc = "send"
    /\ CanSend
    /\ queue' = IF ReceiverAlive THEN Enqueue(queue, mono) ELSE queue
    /\ sent' = Append(sent, mono)
    /\ mono' = <<>>
    /\ ppc' = "idle"
    /\ UNCHANGED <<senders, ncalls, workerVars, spectrogram, lock, uiVars,
                   ingested, windows, pushed>>

\* drop(tx): the handle main (or the test) keeps.
DropMain ==
    /\ "main" \in senders
    /\ senders' = senders \ {"main"}
    /\ UNCHANGED <<queue, audioVars, workerVars, spectrogram, lock, uiVars, ghostVars>>

\* The stream is dropped, and with it the closure owning the cloned Sender;
\* no callback is running.
DropStream ==
    /\ "stream" \in senders
    /\ ppc = "idle"
    /\ senders' = senders \ {"stream"}
    /\ UNCHANGED <<queue, audioVars, workerVars, spectrogram, lock, uiVars, ghostVars>>

\* ------------------------------------------------------------ FFT worker
\* Mutant: the newest queued message is taken first.
RecvNewest(q) == q[Len(q)]

\* Receiver iteration yields the oldest queued message and removes it.
RecvFront(q) == Head(q)
RecvRest(q) == Tail(q)

\* `for chunk in rx`: the next chunk, in arrival order.
WorkerRecv ==
    /\ wpc = "recv"
    /\ queue # <<>>
    /\ chunk' = RecvFront(queue)
    /\ queue' = RecvRest(queue)
    /\ wpc' = "extend"
    /\ UNCHANGED <<senders, audioVars, buffer, frame, mags, spectrogram, lock,
                   uiVars, ghostVars>>

\* Mutant: the loop never sees the channel as disconnected.
DisconnectedNever == FALSE

\* Mutant: only the stream's handle counts, the handle kept by main is ignored.
DisconnectedStreamGone == queue = <<>> /\ "stream" \notin senders

\* The iterator returns None: the channel is empty and every Sender is dropped.
Disconnected == queue = <<>> /\ senders = {}

\* `for chunk in rx` ends; the closure returns and drops rx.
WorkerDisconnected ==
    /\ wpc = "recv"
    /\ Disconnected
    /\ wpc' = "done"
    /\ UNCHANGED <<senders, queue, audioVars, chunk, buffer, frame, mags,
                   spectrogram, lock, uiVars, ghostVars>>

\* Mutant: an empty chunk is taken for a dropout and padded with a zero sample.
ExtendPadsEmpty(b, c) == IF c = <<>> THEN Append(b, 0) ELSE b \o c

\* Vec::extend: the chunk's samples are appended in order.
Extend(b, c) == b \o c

\* buffer.extend(chunk)
WorkerExtend ==
    /\ wpc = "extend"
    /\ buffer' = Extend(buffer, chunk)
    /\ ingested' = Append(ingested, chunk)
    /\ chunk' = <<>>
    /\ wpc' = "while"
    /\ UNCHANGED <<senders, queue, audioVars, frame, mags, spectrogram, lock,
                   uiVars, sent, windows, pushed>>

\* Mutant: the loop test with > for >=.
HasMoreThanWindow(b) == Len(b) > FFT_SIZE

\* The loop test `buffer.len() >= FFT_SIZE`.
HasWindow(b) == Len(b) >= FFT_SIZE

\* buffer.drain(..FFT_SIZE).collect(): the first FFT_SIZE samples ...
DrainFront(b) == SubSeq(b, 1, FFT_SIZE)

\* Mutants: the drain removes one sample too many / one too few.
DrainRestSkipsOne(b) == SubSeq(b, FFT_SIZE + 2, Len(b))
DrainRestOverlaps(b) == SubSeq(b, FFT_SIZE, Len(b))

\* ... and what is left in the buffer.
DrainRest(b) == SubSeq(b, FFT_SIZE + 1, Len(b))

\* while buffer.len() >= FFT_SIZE { let frame = buffer.drain(..FFT_SIZE).collect();
WorkerDrain ==
    /\ wpc = "while"
    /\ HasWindow(buffer)
    /\ frame' = DrainFront(buffer)
    /\ buffer' = DrainRest(buffer)
    /\ windows' = Append(windows, DrainFront(buffer))
    /\ wpc' = "fft"
    /\ UNCHANGED <<senders, queue, audioVars, chunk, mags, spectrogram, lock,
                   uiVars, sent, ingested, pushed>>

\* The while loop ends: back to `for chunk in rx`.
WorkerLoopEnd ==
    /\ wpc = "while"
    /\ ~HasWindow(buffer)
    /\ wpc' = "recv"
    /\ UNCHANGED <<senders, queue, audioVars, chunk, buffer, frame, mags,
                   spectrogram, lock, uiVars, ghostVars>>

\* The transform of `frame` into `mags`; `frame` is consumed by into_iter().
WorkerFft ==
    /\ wpc = "fft"
    /\ mags' = Transform(frame)
    /\ frame' = <<>>
    /\ wpc' = "lock"
    /\ UNCHANGED <<senders, queue, audioVars, chunk, buffer, spectrogram, lock,
                   uiVars, ghostVars>>

\* Mutant: no mutual exclusion.
MutexIgnored == TRUE

\* Mutant: poisoning is ignored (lock().unwrap_or_else(PoisonError::into_inner)).
MutexPoisonIgnored == lock \in {"free", "poisoned"}

\* Mutex::lock(): what a thread needs in order to acquire.
MutexFree == lock = "free"

\* let mut spec = spec_ref.lock().unwrap();
WorkerLock ==
    /\ wpc = "lock"
    /\ MutexFree
    /\ lock' = "worker"
    /\ wpc' = "pop"
    /\ UNCHANGED <<senders, queue, audioVars, chunk, buffer, frame, mags,
                   spectrogram, uiVars, ghostVars>>

\* Vec::pop: removes the last element (None, and no change, on an empty Vec).
PopLast(v) == IF v = <<>> THEN v ELSE SubSeq(v, 1, Len(v) - 1)

\* Mutant: the frame is pushed at the back.
InsertBack(v, m) == Append(v, m)

\* Vec::insert(0, m)
InsertFront(v, m) == <<m>> \o v

\* spec.pop();
WorkerPop ==
    /\ wpc = "pop"
    /\ spectrogram' = PopLast(spectrogram)
    /\ wpc' = "insert"
    /\ UNCHANGED <<senders, queue, audioVars, chunk, buffer, frame, mags, lock,
                   uiVars, ghostVars>>

\* spec.insert(0, mags);
WorkerInsert ==
    /\ wpc = "insert"
    /\ spectrogram' = InsertFront(spectrogram, mags)
    /\ pushed' = Append(pushed, mags)
    /\ mags' = <<>>
    /\ wpc' = "unlock"
    /\ UNCHANGED <<senders, queue, audioVars, chunk, buffer, frame, lock,
                   uiVars, sent, ingested, windows>>

\* End of the while body: the guard `spec` goes out of scope.
WorkerUnlock ==
    /\ wpc = "unlock"
    /\ lock' = "free"
    /\ wpc' = "while"
    /\ UNCHANGED <<senders, queue, audioVars, chunk, buffer, frame, mags,
                   spectrogram, uiVars, ghostVars>>

\* ------------------------------------------------------------ renderer
\* event::poll / event::read: no 'q' was pressed.
RendererPoll ==
    /\ rpc = "poll"
    /\ rpc' = "lock"
    /\ screen' = NoPicture
    /\ UNCHANGED <<senders, queue, audioVars, workerVars, spectrogram, lock,
                   uiSpec, term, ghostVars>>

\* 'q' was pressed: break.
RendererQuit ==
    /\ rpc = "poll"
    /\ rpc' = "done"
    /\ screen' = NoPicture
    /\ UNCHANGED <<senders, queue, audioVars, workerVars, spectrogram, lock,
                   uiSpec, term, ghostVars>>

\* spectrogram.lock().unwrap()
RendererLock ==
    /\ rpc = "lock"
    /\ MutexFree
    /\ lock' = "ui"
    /\ rpc' = "clone"
    /\ UNCHANGED <<senders, queue, audioVars, workerVars, spectrogram, uiSpec,
                   drawVars, ghostVars>>

\* Mutant: the history is moved out of the Mutex (std::mem::take) instead of
\* being copied.
TakenOut(v) == <<>>

\* Vec::clone takes &self: what the store holds after the renderer's clone.
Borrowed(v) == v

\* .clone()
RendererClone ==
    /\ rpc = "clone"
    /\ uiSpec' = spectrogram
    /\ spectrogram' = Borrowed(spectrogram)
    /\ rpc' = "unlock"
    /\ UNCHANGED <<senders, queue, audioVars, workerVars, lock, drawVars, ghostVars>>

\* Mutant: the guard is bound to a variable and lives through the draw.
UiGuardKept == "ui"

\* The MutexGuard is a temporary of the `let spec = ...;` statement: it is
\* dropped at the end of the statement, which frees the Mutex.
UiGuardDrop == "free"

\* End of the `let spec = ...;` statement.
RendererUnlock ==
    /\ rpc = "unlock"
    /\ lock' = UiGuardDrop
    /\ rpc' = "draw"
    /\ UNCHANGED <<senders, queue, audioVars, workerVars, spectrogram, uiSpec,
                   drawVars, ghostVars>>

\* terminal.draw(..): builds the picture from the local copy and the
\* terminal's inner area; an index out of range panics.
RendererDraw ==
    /\ rpc = "draw"
    /\ screen' = TerminalPicture(uiSpec, term)
    /\ rpc' = IF Panics(TerminalPicture(uiSpec, term)) THEN "panicked" ELSE "poll"
    /\ UNCHANGED <<senders, queue, audioVars, workerVars, spectrogram, lock,
                   uiSpec, term, ghostVars>>

\* SpectrogramApp::update after its clone (the GUI's renderer): builds the
\* image from the local copy.
GuiUpdate ==
    /\ rpc = "draw"
    /\ screen' = GuiPicture(uiSpec)
    /\ rpc' = IF Panics(GuiPicture(uiSpec)) THEN "panicked" ELSE "poll"
    /\ UNCHANGED <<senders, queue, audioVars, workerVars, spectrogram, lock,
                   uiSpec, term, ghostVars>>

\* The user resizes the terminal.
Resize ==
    /\ \E w \in TermWidths, h \in TermHeights :
          /\ [width |-> w, height |-> h] # term
          /\ term' = [width |-> w, height |-> h]
    /\ UNCHANGED <<senders, queue, audioVars, workerVars, spectrogram, lock,
                   rpc, uiSpec, screen, ghostVars>>

\* ------------------------------------------------------------ specification
Audio == (\E n \in ChunkLens : Callback(n)) \/ AudioSend

Worker ==
    \/ WorkerRecv \/ WorkerDisconnected \/ WorkerExtend \/ WorkerDrain
    \/ WorkerLoopEnd \/ WorkerFft \/ WorkerLock \/ WorkerPop \/ WorkerInsert
    \/ WorkerUnlock

Renderer ==
    \/ RendererPoll \/ RendererQuit \/ RendererLock \/ RendererClone
    \/ RendererUnlock \/ RendererDraw

Next == Audio \/ DropMain \/ DropStream \/ Worker \/ Renderer

Spec == Init /\ [][Next]_vars

\* ------------------------------------------------------------ store failure
\* Nothing in the two critical sections panics (pop, insert and clone do not),
\* so Spec never poisons the Mutex.  FaultSpec adds the failure of section 7
\* of the design, a holder that panics with the guard alive, and the code's
\* reaction to it: lock() returns Err(PoisonError) and unwrap() panics.

\* A panic in the renderer while its guard is alive: the guard is dropped
\* during unwinding and marks the Mutex poisoned.
RendererCrash ==
    /\ rpc \in {"clone", "unlock"}
    /\ rpc' = "crashed"
    /\ lock' = "poisoned"
    /\ UNCHANGED <<senders, queue, audioVars, workerVars, spectrogram, uiSpec,
                   drawVars, ghostVars>>

\* A panic in the worker while its guard is alive.
WorkerCrash ==
    /\ wpc \in {"pop", "insert", "unlock"}
    /\ wpc' = "crashed"
    /\ lock' = "poisoned"
    /\ UNCHANGED <<senders, queue, audioVars, chunk, buffer, frame, mags,
                   spectrogram, uiVars, ghostVars>>

\* lock() on a poisoned Mutex returns Err.
Poisoned == lock = "poisoned"

\* spec_ref.lock().unwrap() on a poisoned Mutex: the worker panics; its closure
\* unwinds (rx is dropped), nothing is pushed.
WorkerLockPoisoned ==
    /\ wpc = "lock"
    /\ Poisoned
    /\ wpc' = "panicked"
    /\ UNCHANGED <<senders, queue, audioVars, chunk, buffer, frame, mags,
                   spectrogram, lock, uiVars, ghostVars>>

\* spectrogram.lock().unwrap() on a poisoned Mutex: run_ui panics, on the
\* thread that called it.
RendererLockPoisoned ==
    /\ rpc = "lock"
    /\ Poisoned
    /\ rpc' = "panicked"
    /\ UNCHANGED <<senders, queue, audioVars, workerVars, spectrogram, lock,
                   uiSpec, drawVars, ghostVars>>

\* Scheduling.  Every thread that can take a step eventually takes it (weak
\* fairness of the worker's steps and of the renderer's steps inside its
\* critical section).  The worker's lock() is strongly fair: the renderer frees
\* the Mutex after every clone and then draws and polls (10 ms) before it asks
\* again, so a worker blocked in lock() is woken while the Mutex is free.
\* Nothing is assumed of the device (callbacks), of the drops, or of the
\* renderer outside its critical section.
WorkerUnblocked ==
    \/ WorkerRecv \/ WorkerDisconnected \/ WorkerExtend \/ WorkerDrain
    \/ WorkerLoopEnd \/ WorkerFft \/ WorkerPop \/ WorkerInsert \/ WorkerUnlock

RendererCritical == RendererClone \/ RendererUnlock

Fairness ==
    /\ WF_vars(WorkerUnblocked)
    /\ SF_vars(WorkerLock)
    /\ WF_vars(RendererCritical)

\* The same program with fewer callbacks, and the scheduling above.
FairAudio == (\E n \in ChunkLens : Callback(n) /\ ncalls < FairMaxCallbacks) \/ AudioSend

FairNext == FairAudio \/ DropMain \/ DropStream \/ Worker \/ Renderer

FairSpec == Init /\ [][FairNext]_vars /\ Fairness

\* The same, with the renderer's lock() strongly fair as well: after each push
\* the worker frees the Mutex and has a window to drain and transform (or a
\* chunk to wait for) before it asks again.
LockFairSpec == Init /\ [][FairNext]_vars /\ Fairness /\ SF_vars(RendererLock)

\* The program with the store failure (and the smaller number of callbacks).
FaultNext ==
    \/ FairNext
    \/ RendererCrash \/ WorkerCrash \/ WorkerLockPoisoned \/ RendererLockPoisoned

FaultSpec == Init /\ [][FaultNext]_vars

\* The program with either renderer (terminal or GUI) and a terminal that is
\* resized at any time, with fewer callbacks.
DrawAudio == (\E n \in ChunkLens : Callback(n) /\ ncalls < DrawMaxCallbacks) \/ AudioSend

DrawNext ==
    \/ DrawAudio \/ DropMain \/ DropStream \/ Worker \/ Renderer
    \/ GuiUpdate \/ Resize

DrawSpec == Init /\ [][DrawNext]_vars

\* The transform on its own: the worker has just drained an Analysis Window
\* whose samples are drawn from Samples (silence, the smallest amplitudes, full
\* scale and just above it), received as one chunk; it transforms the window
\* and pushes the frame.
Samples == {-1, 0, 1, FullScale, FullScale + 1}

TransformInit ==
    /\ frame \in [1..FFT_SIZE -> Samples]
    /\ windows = <<frame>>
    /\ sent = <<frame>>
    /\ ingested = <<frame>>
    /\ pushed = <<>>
    /\ wpc = "fft"
    /\ chunk = <<>>
    /\ buffer = <<>>
    /\ mags = <<>>
    /\ senders = {"main", "stream"}
    /\ queue = <<>>
    /\ ppc = "idle"
    /\ mono = <<>>
    /\ ncalls = 1
    /\ spectrogram = InitialStore
    /\ lock = "free"
    /\ rpc = "poll"
    /\ uiSpec = <<>>
    /\ term = InitialTerm
    /\ screen = NoPicture

TransformNext == WorkerFft \/ WorkerLock \/ WorkerPop \/ WorkerInsert \/ WorkerUnlock

TransformSpec == TransformInit /\ [][TransformNext]_vars

\* ------------------------------------------------------------ the loop inlined in main
\* main.rs carries its own copy of the worker (thread::spawn in main); it is
\* translated here on its own, as a function from the chunks received to the
\* worker's buffer, the store, the windows drained and the frames pushed.

\* main.rs: (c.norm() / (FFT_SIZE as f32)).log10().max(-2.0) + 2.0
MainLogMag(p) ==
    IF 10000 * p <= FFT_SIZE * FFT_SIZE * FullScale * FullScale THEN 0 ELSE p

\* main.rs: input[..FFT_SIZE / 2].iter().map(..).collect()
MainMags(x) == [k \in 1..(FFT_SIZE \div 2) |-> MainLogMag(NormSqr(x, k - 1))]

\* Mutant: the frame is inserted without the pop before it.
MainPushNoPop(store, m) == <<m>> \o store

\* main.rs: spec.pop(); spec.insert(0, mags);  (pop of an empty Vec is None)
MainPush(store, m) ==
    <<m>> \o (IF store = <<>> THEN <<>> ELSE SubSeq(store, 1, Len(store) - 1))

\* main.rs: while buffer.len() >= FFT_SIZE { drain, transform, push }
RECURSIVE MainWhile(_)
MainWhile(st) ==
    IF Len(st.buffer) >= FFT_SIZE
    THEN MainWhile([buffer  |-> SubSeq(st.buffer, FFT_SIZE + 1, Len(st.buffer)),
                    store   |-> MainPush(st.store, MainMags(SubSeq(st.buffer, 1, FFT_SIZE))),
                    windows |-> Append(st.windows, SubSeq(st.buffer, 1, FFT_SIZE)),
                    pushed  |-> Append(st.pushed, MainMags(SubSeq(st.buffer, 1, FFT_SIZE)))])
    ELSE st

\* main.rs: the body of `for chunk in rx`: buffer.extend(chunk); while ...
MainChunk(st, c) == MainWhile([st EXCEPT !.buffer = st.buffer \o c])

\* main.rs: `for chunk in rx` over the chunks received, from an empty buffer
\* and the given store.
RECURSIVE MainRun(_, _)
MainRun(st, chunks) ==
    IF chunks = <<>> THEN st ELSE MainRun(MainChunk(st, Head(chunks)), Tail(chunks))

MainStart(store) == [buffer |-> <<>>, store |-> store, windows |-> <<>>, pushed |-> <<>>]

\* ------------------------------------------------------------ properties
\* The input stream: every mono sample handed to the channel, in order.
Stream == Flatten(sent)

\* The store after k pushes, newest first: position i (1-based) holds the
\* (k+1-i)-th pushed frame, the positions beyond k hold the zero pre-fill.
NewestFirst(k) ==
    [i \in 1..SPEC_WIDTH |-> IF i <= k THEN pushed[k + 1 - i] ELSE ZeroFrame]

\* C1 (contiguity): the Analysis Windows emitted so far, concatenated in
\* emission order and followed by the Pending Buffer, are exactly the ingested
\* chunks concatenated in arrival order: nothing lost, duplicated or reordered.
Contiguity == Flatten(windows) \o buffer = Flatten(ingested)

\* C1 witness: after an aggregation step, two windows were emitted, a remainder
\* is pending, and an empty chunk and a chunk of more than two windows were
\* among the ingested ones.
ContiguityWitness ==
    /\ wpc = "recv"
    /\ Len(windows) >= 2
    /\ buffer # <<>>
    /\ \E i \in 1..Len(ingested) : ingested[i] = <<>>
    /\ \E i \in 1..Len(ingested) : Len(ingested[i]) > 2 * FFT_SIZE

\* C2 (no tearing): every snapshot the renderer holds has exactly SPEC_WIDTH
\* frames and is the store as it was after some whole number of pushes; a
\* snapshot just taken is the store as it is.
NoTearing ==
    uiSpec # <<>> =>
        /\ Len(uiSpec) = SPEC_WIDTH
        /\ \E j \in 0..Len(pushed) : uiSpec = NewestFirst(j)
        /\ rpc = "unlock" => uiSpec = spectrogram

\* C2 witness: the renderer, already holding an earlier snapshot, asks for the
\* next one while the worker is between pop and insert (SPEC_WIDTH-1 frames).
NoTearingWitness ==
    /\ rpc = "lock"
    /\ wpc = "insert"
    /\ Len(spectrogram) = SPEC_WIDTH - 1
    /\ uiSpec # <<>>
    /\ pushed # <<>>

\* C3 (rotation order): outside a push the store has exactly SPEC_WIDTH frames,
\* newest first: position i (0-based) holds F(k-i) for i < min(k, SPEC_WIDTH) and
\* the zero pre-fill elsewhere; between pop and insert it is that sequence
\* without its last (oldest) frame; a snapshot just taken shows the same order.
RotationOrder ==
    /\ wpc # "insert" => spectrogram = NewestFirst(Len(pushed))
    /\ wpc = "insert" =>
           spectrogram = SubSeq(NewestFirst(Len(pushed)), 1, SPEC_WIDTH - 1)
    /\ rpc = "unlock" => uiSpec = NewestFirst(Len(pushed))

\* C3 witness: more pushes than the store is wide, of pairwise different frames
\* that are not the pre-fill, and a snapshot just taken.
RotationOrderWitness ==
    /\ Len(pushed) > SPEC_WIDTH
    /\ \A i, j \in 1..Len(pushed) : i # j => pushed[i] # pushed[j]
    /\ \A i \in 1..Len(pushed) : pushed[i] # ZeroFrame
    /\ wpc = "recv"
    /\ rpc = "unlock"

\* C4 (the producer never blocks): whenever the callback is at its send, the
\* send can be taken at once, whatever is queued and whoever holds the Mutex.
ProducerNeverBlocks == ppc = "send" => ENABLED AudioSend

\* C4 witness: the callback is at its send with chunks already queued while
\* the Mutex is held.
ProducerNeverBlocksWitness ==
    /\ ppc = "send"
    /\ Len(queue) >= 2
    /\ lock # "free"

\* C5 (arrival order, one at a time): the chunks ingested are a prefix of the
\* chunks sent; window i is the i-th FFT_SIZE slice of the input stream and
\* frame i is its transform; at most one window is in flight, and when the
\* transform of a window starts every earlier window is in the store and the
\* worker does not hold the Mutex.
InArrivalOrder ==
    /\ Len(ingested) <= Len(sent)
    /\ ingested = SubSeq(sent, 1, Len(ingested))
    /\ \A i \in 1..Len(windows) :
           windows[i] = SubSeq(Stream, (i - 1) * FFT_SIZE + 1, i * FFT_SIZE)
    /\ Len(pushed) <= Len(windows)
    /\ Len(windows) <= Len(pushed) + 1
    /\ \A i \in 1..Len(pushed) : pushed[i] = Transform(windows[i])
    /\ wpc = "fft" => Len(pushed) = Len(windows) - 1 /\ lock # "worker"
    /\ wpc \in {"recv", "extend", "while", "done"} => Len(pushed) = Len(windows)

\* C5 witness: the transform of the third window is about to start while a
\* later chunk is already queued.
InArrivalOrderWitness ==
    /\ wpc = "fft"
    /\ Len(windows) = 3
    /\ Len(pushed) = 2
    /\ queue # <<>>

\* The chunk the worker has received and not yet appended, if any.
InHand == IF wpc = "extend" THEN <<chunk>> ELSE <<>>

\* C6 (no chunk dropped): while the worker is alive, the chunks ingested, the
\* chunk in the worker's hand and the chunks queued are, in this order, exactly
\* the chunks sent (none discarded, none twice); and under fair scheduling of
\* the worker the n-th chunk sent is eventually ingested, for every n.
NoChunkDropped ==
    /\ [](ReceiverAlive => ingested \o InHand \o queue = sent)
    /\ \A n \in 1..FairMaxCallbacks : (Len(sent) >= n) ~> (Len(ingested) >= n)

\* C6 witness: every chunk of a run of FairMaxCallbacks callbacks was
\* ingested, three windows' worth of samples in all, and nothing is queued.
NoChunkDroppedWitness ==
    /\ Len(sent) = FairMaxCallbacks
    /\ ingested = sent
    /\ Len(pushed) = 3
    /\ queue = <<>>

\* C7 (clean shutdown): once every Sender is dropped the worker's loop
\* eventually ends; when it has ended the Pending Buffer holds fewer than
\* FFT_SIZE samples, these produced neither a window nor a frame (every frame
\* pushed is one of the floor(ingested / FFT_SIZE) complete windows), the Mutex
\* is not held by the worker, and from then on the worker changes nothing.
CleanShutdown ==
    /\ (senders = {}) ~> (wpc = "done")
    /\ [](wpc = "done" =>
             /\ Len(buffer) < FFT_SIZE
             /\ Len(pushed) = Len(Flatten(ingested)) \div FFT_SIZE
             /\ Len(windows) = Len(pushed)
             /\ buffer = SubSeq(Flatten(ingested), Len(pushed) * FFT_SIZE + 1,
                                Len(Flatten(ingested)))
             /\ lock # "worker")
    /\ [][wpc = "done" => UNCHANGED <<workerVars, spectrogram, pushed, windows,
                                       ingested>>]_vars

\* C7 witness: the worker has terminated with samples left in the Pending
\* Buffer, after pushing at least one frame.
CleanShutdownWitness ==
    /\ wpc = "done"
    /\ buffer # <<>>
    /\ pushed # <<>>
    /\ senders = {}

\* C8 (window size and remainder): every Analysis Window drained, and the one
\* handed to the transform, has exactly FFT_SIZE samples; outside the
\* aggregation loop the Pending Buffer is shorter than FFT_SIZE.
WindowSize ==
    /\ \A i \in 1..Len(windows) : Len(windows[i]) = FFT_SIZE
    /\ wpc = "fft" => Len(frame) = FFT_SIZE
    /\ wpc \in {"recv", "extend", "done"} => Len(buffer) < FFT_SIZE

\* C8 witness: a chunk longer than two windows was ingested and aggregated:
\* two windows were cut from it and a non-empty remainder is pending.
WindowSizeWitness ==
    /\ wpc = "recv"
    /\ Len(ingested) = 1
    /\ Len(ingested[1]) > 2 * FFT_SIZE
    /\ Len(windows) = 2
    /\ buffer # <<>>

\* The worker is idle: waiting for a chunk (or terminated) with nothing queued.
WorkerIdle == wpc \in {"recv", "done"} /\ queue = <<>>

\* C9 (frame count and progress): when T samples have been sent and the worker
\* is idle, exactly floor(T / FFT_SIZE) frames have been pushed; and under fair
\* scheduling, once n complete windows have been sent, n frames are eventually
\* pushed, for every n.
FrameCount ==
    /\ [](WorkerIdle => Len(pushed) = Len(Stream) \div FFT_SIZE)
    /\ \A n \in 1..(MaxSamples \div FFT_SIZE) :
           (Len(Stream) >= n * FFT_SIZE) ~> (Len(pushed) >= n)

\* C9 witness: two chunks of exactly FFT_SIZE samples were sent, the worker is
\* idle and the store was updated exactly twice.
FrameCountWitness ==
    /\ WorkerIdle
    /\ Len(sent) = 2
    /\ Len(sent[1]) = FFT_SIZE
    /\ Len(sent[2]) = FFT_SIZE
    /\ Len(pushed) = 2

\* C10 (short critical sections): the worker holds the Mutex exactly while it
\* is at the pop, the insert or the end of the loop body (so never during the
\* drain or the transform, and the frame is complete when it asks for the
\* lock); the renderer holds it exactly while it clones (so never while it
\* draws or polls).
ShortCriticalSections ==
    /\ lock = "worker" <=> wpc \in {"pop", "insert", "unlock"}
    /\ lock = "ui" <=> rpc \in {"clone", "unlock"}
    /\ wpc \in {"lock", "pop", "insert"} => Len(mags) = FFT_SIZE \div 2

\* C10 witness: the renderer draws while the worker is inside its critical
\* section.
ShortCriticalSectionsWitness ==
    /\ rpc = "draw"
    /\ wpc = "insert"
    /\ lock = "worker"

StoreFailureFatal ==
    /\ [](wpc = "panicked" =>
             /\ Poisoned
             /\ Len(mags) = FFT_SIZE \div 2
             /\ Len(pushed) = Len(windows) - 1)
    /\ [][wpc = "panicked" => wpc' = "panicked"]_vars
    /\ [][Poisoned => (Poisoned' /\ UNCHANGED <<spectrogram, pushed, uiSpec>>)]_vars
    /\ [][(Poisoned /\ rpc = "lock" /\ rpc' # rpc) => rpc' = "panicked"]_vars

\* C12 witness: the worker has pushed a frame, computed the next one and
\* terminated on the poisoned Mutex.
StoreFailureFatalWitness ==
    /\ wpc = "panicked"
    /\ Poisoned
    /\ pushed # <<>>
    /\ mags # <<>>

\* C13 (an empty or short chunk is a no-op): the step that appends a chunk
\* changes the Pending Buffer only, and not even that for an empty chunk; and
\* when the buffer is then still shorter than FFT_SIZE the worker goes straight
\* back to waiting for the next chunk: no window, no frame, no change of the
\* store, and the Mutex is not touched.
ShortChunkNoOp ==
    [][ /\ (wpc = "extend" /\ wpc' # wpc) =>
            /\ chunk = <<>> => buffer' = buffer
            /\ UNCHANGED <<spectrogram, lock, windows, pushed, frame, mags>>
        /\ (wpc = "while" /\ Len(buffer) < FFT_SIZE /\ wpc' # wpc) =>
            /\ wpc' = "recv"
            /\ UNCHANGED <<buffer, spectrogram, lock, windows, pushed, frame, mags>>
      ]_vars

\* C13 witness: the worker is back at waiting after an empty chunk, ingested
\* last, with a short chunk before it still pending and nothing pushed.
ShortChunkNoOpWitness ==
    /\ wpc = "recv"
    /\ Len(ingested) = 2
    /\ ingested[1] # <<>>
    /\ ingested[2] = <<>>
    /\ buffer = ingested[1]
    /\ windows = <<>>
    /\ spectrogram = InitialStore

\* C14 (read-only renderer, independent snapshot): no step of the renderer
\* changes the store; the store changes only in the worker's pop and insert,
\* under the worker's guard, and such a step leaves the renderer's snapshot as
\* it is; the snapshot changes only in the renderer's clone, to the store's
\* contents.
SnapshotIndependent ==
    [][ /\ rpc' # rpc => spectrogram' = spectrogram
        /\ spectrogram' # spectrogram =>
               (wpc \in {"pop", "insert"} /\ lock = "worker" /\ uiSpec' = uiSpec)
        /\ uiSpec' # uiSpec => (rpc = "clone" /\ uiSpec' = spectrogram)
      ]_vars

\* C14 witness: the renderer draws from a snapshot taken before the latest
\* push: the snapshot still shows the store of one push ago.
SnapshotIndependentWitness ==
    /\ rpc = "draw"
    /\ wpc = "unlock"
    /\ Len(pushed) >= 2
    /\ uiSpec = NewestFirst(Len(pushed) - 1)
    /\ uiSpec # spectrogram

\* C15 (frames are well-formed and immutable): every frame in the store has
\* exactly FFT_SIZE/2 values and is the zero pre-fill or the transform of one
\* of the windows; and whenever the store changes, it either loses its last
\* frame or gains a first one (the worker's frame), every other frame keeping
\* its contents and only moving by one position.
FramesWellFormed ==
    /\ [](\A i \in 1..Len(spectrogram) :
             /\ Len(spectrogram[i]) = FFT_SIZE \div 2
             /\ \/ spectrogram[i] = ZeroFrame
                \/ \E j \in 1..Len(windows) : spectrogram[i] = Transform(windows[j]))
    /\ [][spectrogram' # spectrogram =>
            \/ /\ Len(spectrogram') = Len(spectrogram) - 1
               /\ \A i \in 1..Len(spectrogram') : spectrogram'[i] = spectrogram[i]
            \/ /\ Len(spectrogram') = Len(spectrogram) + 1
               /\ spectrogram'[1] = mags
               /\ \A i \in 1..Len(spectrogram) : spectrogram'[i + 1] = spectrogram[i]
         ]_vars

\* C15 witness: after two pushes into a store that began as pre-fill, the first
\* frame pushed has moved one position and is unchanged.
FramesWellFormedWitness ==
    /\ wpc = "unlock"
    /\ Len(pushed) = 2
    /\ spectrogram[1] = Transform(windows[2])
    /\ spectrogram[2] = Transform(windows[1])
    /\ spectrogram[1] # spectrogram[2]
    /\ spectrogram[2] # ZeroFrame

\* C16 (the viewer sees the most recent frames): whenever the terminal
\* renderer has drawn a snapshot at a width w with 1 <= w <= SPEC_WIDTH, the
\* columns drawn are the w newest frames of the snapshot (positions 1..w, the
\* newest being position 1), so the newest frame is among them.
ViewerSeesNewest ==
    (screen.kind = "tui" /\ 1 <= screen.width /\ screen.width <= SPEC_WIDTH) =>
        /\ {screen.cols[x] : x \in 1..Len(screen.cols)} = 1..screen.width
        /\ \E x \in 1..Len(screen.cols) : screen.cols[x] = 1

\* C17 (lower clamp and silence floor): every value of the frame the transform
\* produces from a window is at least 0.0; it is exactly 0.0 if and only if
\* the bin's magnitude is at or below the floor (log10 <= -2: 100 * norm <=
\* FFT_SIZE * full scale), above the floor it is the unclamped logarithm
\* (encoded by norm^2) however large; an all-zero window gives the all-zero
\* frame; and no value of the store is negative.
SilenceFloor ==
    /\ wpc \in {"lock", "pop", "insert"} =>
          /\ Len(mags) = FFT_SIZE \div 2
          /\ \A k \in 1..Len(mags) :
                LET p == NormSqr(windows[Len(windows)], k - 1)
                    floor == 10000 * p <= FFT_SIZE * FFT_SIZE * FullScale * FullScale
                IN  /\ mags[k] >= 0
                    /\ floor <=> mags[k] = 0
                    /\ ~floor => mags[k] = p
          /\ (\A n \in 1..FFT_SIZE : windows[Len(windows)][n] = 0) => mags = ZeroFrame
    /\ \A i \in 1..Len(spectrogram) : \A k \in 1..Len(spectrogram[i]) :
          spectrogram[i][k] >= 0

\* C17 witness: a frame in the store with a value above 2.0 (magnitude above
\* 1.0, not clamped) and a value 0.0 that comes from a magnitude that is not
\* zero but below the floor.
SilenceFloorWitness ==
    /\ wpc = "unlock"
    /\ pushed = <<spectrogram[1]>>
    /\ spectrogram[1][1] > FFT_SIZE * FFT_SIZE * FullScale * FullScale
    /\ spectrogram[1][2] = 0
    /\ NormSqr(windows[1], 1) > 0

\* C18 (frequency-index bounds): no draw panics on an index out of range; in
\* every picture drawn, a cell whose row maps to an index below FFT_SIZE/2
\* shows the value the snapshot's frame holds at that index, and a cell whose
\* row maps to an index outside the frame is blank (terminal) or the value 0
\* (GUI); and every snapshot the renderer draws from has at least one frame,
\* each of FFT_SIZE/2 values, so the GUI's spec[0].len() succeeds.
IndexInBounds ==
    /\ rpc # "panicked"
    /\ ~Panics(screen)
    /\ screen.kind # "none" =>
          \A r \in 1..Len(screen.lines) : \A x \in 1..Len(screen.lines[r]) :
              LET h == Len(screen.lines)
                  idx == FftIndex(IF screen.kind = "tui" THEN r - 1 ELSE h - r, h)
                  column == uiSpec[screen.cols[x]]
                  cell == screen.lines[r][x]
              IN  IF idx < FFT_SIZE \div 2
                  THEN /\ cell[1] = "val"
                       /\ cell[2] = IF screen.kind = "tui" THEN column[idx + 1]
                                    ELSE Min(column[idx + 1],
                                             FFT_SIZE * FFT_SIZE * FullScale * FullScale)
                  ELSE cell = IF screen.kind = "tui" THEN <<"blank", 0>> ELSE <<"val", 0>>
    /\ (rpc \in {"unlock", "draw"} \/ screen.kind # "none") =>
          /\ uiSpec # <<>>
          /\ \A i \in 1..Len(uiSpec) : Len(uiSpec[i]) = FFT_SIZE \div 2
    /\ lock # "worker" => spectrogram # <<>>

\* C18 witness: the GUI has drawn a snapshot that holds a pushed frame; the row
\* of the highest frequency maps to index FFT_SIZE/2, one past the end of the
\* frame, and shows the value 0, the other row shows the frame's value.
IndexInBoundsWitness ==
    /\ screen.kind = "gui"
    /\ pushed # <<>>
    /\ uiSpec[1] = pushed[Len(pushed)]
    /\ FftIndex(0, Len(uiSpec[1])) = Len(uiSpec[1])
    /\ screen.lines[Len(screen.lines)][SPEC_WIDTH] = <<"val", 0>>
    /\ screen.lines[1][SPEC_WIDTH] = <<"val", uiSpec[1][FftIndex(1, Len(uiSpec[1])) + 1]>>
    /\ screen.lines[1][SPEC_WIDTH][2] > 0

\* C19 (shutdown drains the queue and needs every sender gone): the worker's
\* loop ends only from its wait in `for chunk in rx`, and only when no Sender
\* is left and the channel is empty; while a Sender is alive and the channel
\* is empty the worker has no step (it waits); when the worker has ended,
\* every chunk ever sent has been ingested and every complete window of the
\* stream has been pushed; and once every Sender is dropped the worker does
\* end, with nothing left in the channel.
ShutdownDrains ==
    /\ [][(wpc # "done" /\ wpc' = "done") =>
            (wpc = "recv" /\ senders = {} /\ queue = <<>>)]_vars
    /\ []((wpc = "recv" /\ queue = <<>> /\ senders # {}) => ~ENABLED Worker)
    /\ [](wpc = "done" =>
             /\ senders = {}
             /\ queue = <<>>
             /\ ingested = sent
             /\ Len(pushed) = Len(Stream) \div FFT_SIZE
             /\ \A j \in 1..Len(pushed) :
                    pushed[j] = Transform(SubSeq(Stream, (j - 1) * FFT_SIZE + 1, j * FFT_SIZE)))
    /\ (senders = {}) ~> (wpc = "done" /\ queue = <<>> /\ ingested = sent)

\* C19 witness: the worker has ended with every handle dropped; two chunks or
\* more had been sent and are ingested, their windows are pushed and a partial
\* window is left over.
ShutdownDrainsWitness ==
    /\ wpc = "done"
    /\ senders = {}
    /\ Len(sent) >= 2
    /\ ingested = sent
    /\ Len(pushed) >= 2
    /\ Len(Stream) % FFT_SIZE # 0

\* C20 (the two copies of the pipeline are equivalent): whenever the worker
\* started by start_fft_thread is between two chunks (or has ended), its
\* Pending Buffer, the store, the windows it has drained and the frames it
\* has pushed are those the loop inlined in main yields for the same chunks
\* from the same initial store.
PipelinesEquivalent ==
    wpc \in {"recv", "done"} =>
        LET m == MainRun(MainStart(InitialStore), ingested)
        IN  /\ buffer = m.buffer
            /\ spectrogram = m.store
            /\ windows = m.windows
            /\ pushed = m.pushed

\* C20 witness: between two chunks, after an empty chunk and others, with
\* more frames pushed than the store holds and a partial window pending.
PipelinesEquivalentWitness ==
    /\ wpc = "recv"
    /\ Len(ingested) >= 3
    /\ \E i \in 1..Len(ingested) : ingested[i] = <<>>
    /\ Len(pushed) > SPEC_WIDTH
    /\ buffer # <<>>
    /\ spectrogram = MainRun(MainStart(InitialStore), ingested).store

====
